---------------------------- MODULE Spec2Model ----------------------------
(***************************************************************************)
(* A model of nerfstudio/process_data/process_data_utils.py: the matcher   *)
(* combination resolver, the mask generator, the video frame extractor and *)
(* the still-image copier, each call of a function being one action over   *)
(* the filesystem, the external commands issued and the returned value.    *)
(***************************************************************************)
EXTENDS Integers, Sequences, FiniteSets, TLC

VARIABLES
    op,         \* which function has run: "idle" before the call
    args,       \* the arguments of the call
    ret,        \* what the call returned, or how it ended
    dirs,       \* the directories that exist
    files,      \* the files that exist: path -> content
    pre_dirs,   \* the directories that existed when the call started
    pre_files,  \* the files that existed when the call started
    cmds,       \* the external commands run (run_command), in order
    log         \* the console messages, in order

vars == <<op, args, ret, dirs, files, pre_dirs, pre_files, cmds, log>>

None == "None"

NoFiles == [p \in {} |-> None]

\* The state a pure function's specification leaves untouched.
NoFilesystem ==
    /\ dirs = {}
    /\ files = NoFiles
    /\ pre_dirs = {}
    /\ pre_files = NoFiles
    /\ cmds = <<>>
    /\ log = <<>>

(***************************************************************************)
(* find_tool_feature_matcher_combination                                   *)
(***************************************************************************)
SfmTools == {"any", "colmap", "hloc"}

FeatureTypes ==
    {"any", "sift", "superpoint", "superpoint_aachen", "superpoint_max",
     "superpoint_inloc", "r2d2", "d2net-ss", "sosnet", "disk"}

MatcherTypes ==
    {"any", "NN", "superglue", "superglue-fast", "NN-superpoint", "NN-ratio",
     "NN-mutual", "adalam", "disk+lightglue", "superpoint+lightglue"}

ReturnTools == {"colmap", "hloc"}

ReturnFeatures ==
    {"sift", "superpoint_aachen", "superpoint_max", "superpoint_inloc",
     "r2d2", "d2net-ss", "sosnet", "disk"}

ReturnMatchers ==
    {"NN", "superglue", "superglue-fast", "NN-superpoint", "NN-ratio",
     "NN-mutual", "adalam", "disk+lightglue", "superpoint+lightglue"}

NullTriple == <<None, None, None>>

\* Mutant: the hloc path forgets to replace the wildcard matcher.
find_tool_feature_matcher_combination_KeepsAny(sfm_tool, feature_type, matcher_type) ==
    LET tool == IF sfm_tool = "any"
                THEN IF feature_type \in {"any", "sift"} /\ matcher_type \in {"any", "NN"}
                     THEN "colmap" ELSE "hloc"
                ELSE sfm_tool
    IN  IF tool = "colmap"
        THEN IF feature_type \notin {"any", "sift"} \/ matcher_type \notin {"any", "NN"}
             THEN NullTriple
             ELSE <<"colmap", "sift", "NN">>
        ELSE IF tool = "hloc"
        THEN <<tool,
               IF feature_type \in {"any", "superpoint"} THEN "superpoint_aachen" ELSE feature_type,
               IF matcher_type = "NN" THEN "NN-mutual" ELSE matcher_type>>
        ELSE NullTriple

\* Mutant: the colmap path reports a rejected combination with the tool filled in.
find_tool_feature_matcher_combination_Partial(sfm_tool, feature_type, matcher_type) ==
    LET tool == IF sfm_tool = "any"
                THEN IF feature_type \in {"any", "sift"} /\ matcher_type \in {"any", "NN"}
                     THEN "colmap" ELSE "hloc"
                ELSE sfm_tool
    IN  IF tool = "colmap"
        THEN IF feature_type \notin {"any", "sift"} \/ matcher_type \notin {"any", "NN"}
             THEN <<"colmap", None, None>>
             ELSE <<"colmap", "sift", "NN">>
        ELSE IF tool = "hloc"
        THEN <<tool,
               IF feature_type \in {"any", "superpoint"} THEN "superpoint_aachen" ELSE feature_type,
               IF matcher_type = "any" THEN "superpoint+lightglue"
               ELSE IF matcher_type = "NN" THEN "NN-mutual" ELSE matcher_type>>
        ELSE NullTriple

find_tool_feature_matcher_combination(sfm_tool, feature_type, matcher_type) ==
    LET tool == IF sfm_tool = "any"
                THEN IF feature_type \in {"any", "sift"} /\ matcher_type \in {"any", "NN"}
                     THEN "colmap" ELSE "hloc"
                ELSE sfm_tool
    IN  IF tool = "colmap"
        THEN IF feature_type \notin {"any", "sift"} \/ matcher_type \notin {"any", "NN"}
             THEN NullTriple
             ELSE <<"colmap", "sift", "NN">>
        ELSE IF tool = "hloc"
        THEN <<tool,
               IF feature_type \in {"any", "superpoint"} THEN "superpoint_aachen" ELSE feature_type,
               IF matcher_type = "any" THEN "superpoint+lightglue"
               ELSE IF matcher_type = "NN" THEN "NN-mutual" ELSE matcher_type>>
        ELSE NullTriple

ResolverArgs ==
    [sfm_tool : SfmTools, feature_type : FeatureTypes, matcher_type : MatcherTypes]

InitResolver ==
    /\ op = "idle"
    /\ args \in ResolverArgs
    /\ ret = <<>>
    /\ NoFilesystem

FindToolFeatureMatcherCombination ==
    /\ op = "idle"
    /\ op' = "find_tool_feature_matcher_combination"
    /\ ret' = find_tool_feature_matcher_combination(
                  args.sfm_tool, args.feature_type, args.matcher_type)
    /\ UNCHANGED <<args, dirs, files, pre_dirs, pre_files, cmds, log>>

NextResolver == FindToolFeatureMatcherCombination

SpecResolver == InitResolver /\ [][NextResolver]_vars

Resolved == op = "find_tool_feature_matcher_combination"

\* The rule table of the resolver, as the specification words it.
ColmapAccepts(feature, matcher) ==
    feature \in {"any", "sift"} /\ matcher \in {"any", "NN"}

RuleTool(tool, feature, matcher) ==
    CASE tool = "any" /\ ColmapAccepts(feature, matcher) -> "colmap"
      [] tool = "any" /\ ~ColmapAccepts(feature, matcher) -> "hloc"
      [] OTHER -> tool

RuleFeature(feature) ==
    CASE feature = "any" -> "superpoint_aachen"
      [] feature = "superpoint" -> "superpoint_aachen"
      [] OTHER -> feature

RuleMatcher(matcher) ==
    CASE matcher = "any" -> "superpoint+lightglue"
      [] matcher = "NN" -> "NN-mutual"
      [] OTHER -> matcher

RuleTable(tool, feature, matcher) ==
    CASE RuleTool(tool, feature, matcher) = "colmap" /\ ColmapAccepts(feature, matcher) ->
            <<"colmap", "sift", "NN">>
      [] RuleTool(tool, feature, matcher) = "colmap" /\ ~ColmapAccepts(feature, matcher) ->
            NullTriple
      [] RuleTool(tool, feature, matcher) = "hloc" ->
            <<"hloc", RuleFeature(feature), RuleMatcher(matcher)>>

\* C1: for every input of the documented literal sets the resolver returns
\* exactly what the rule table gives: 'any' resolved to colmap or hloc, colmap
\* giving (colmap, sift, NN) or the null triple, hloc replacing the wildcard
\* and shorthand values and passing every other value through.
C1_ResolverFollowsRuleTable ==
    Resolved => ret = RuleTable(args.sfm_tool, args.feature_type, args.matcher_type)

\* C1 witness: a resolved hloc call whose explicit feature and matcher pass through.
C1_Witness ==
    /\ Resolved
    /\ args.sfm_tool = "any"
    /\ args.feature_type = "disk"
    /\ args.matcher_type = "NN"
    /\ ret = <<"hloc", "disk", "NN-mutual">>

\* C2: the resolver never returns a partial result: the null triple, or a
\* triple of a declared tool, a declared return feature and a declared return
\* matcher (so no component is null or the wildcard).
C2_ResolverTotalNeverPartial ==
    Resolved =>
        \/ ret = NullTriple
        \/ /\ Len(ret) = 3
           /\ ret[1] \in ReturnTools
           /\ ret[2] \in ReturnFeatures
           /\ ret[3] \in ReturnMatchers
           /\ None \notin {ret[1], ret[2], ret[3]}
           /\ "any" \notin {ret[2], ret[3]}

\* C2 witness: both outcomes happen, here the null triple for a combination
\* colmap rejects.
C2_Witness ==
    /\ Resolved
    /\ args.sfm_tool = "colmap"
    /\ args.feature_type = "superpoint"
    /\ ret = NullTriple

(***************************************************************************)
(* generate_circle_mask, generate_crop_mask, generate_mask                 *)
(*                                                                         *)
(* A crop fraction is n / CropDen and a radius is n / RadiusDen, so that   *)
(* the float products of the code are computed exactly.  A mask is a       *)
(* function from <<row, column>> to the pixel value.                       *)
(***************************************************************************)
MaxDim == 3

CropDen == 2

RadiusDen == 4

Pixels(height, width) == (0 .. height - 1) \X (0 .. width - 1)

MaskNone == [kind |-> None, mask |-> <<>>]

MaskExit == [kind |-> "exit", mask |-> <<>>]

MaskOf(m) == [kind |-> "mask", mask |-> m]

\* int(percent_radius * np.sqrt(width**2 + height**2) / 2.0), percent_radius = r / RadiusDen
CircleRadius(height, width, r) ==
    CHOOSE k \in 0 .. (height + width) :
        /\ (2 * RadiusDen * k) * (2 * RadiusDen * k)
               <= r * r * (width * width + height * height)
        /\ (2 * RadiusDen * (k + 1)) * (2 * RadiusDen * (k + 1))
               > r * r * (width * width + height * height)

\* cv2.circle(mask, center, radius, 1, -1): the filled midpoint circle, as the
\* spans <<row, column>> it paints before clipping to the image.
RECURSIVE CircleSpans(_, _, _, _, _, _, _)
CircleSpans(cx, cy, dx, dy, err, plus, minus) ==
    IF dx < dy
    THEN {}
    ELSE LET spans ==
                 ({cy - dy, cy + dy} \X ((cx - dx) .. (cx + dx)))
                 \cup ({cy - dx, cy + dx} \X ((cx - dy) .. (cx + dy)))
             err1 == err + plus
             turn == err1 > 0
         IN  spans \cup CircleSpans(cx, cy,
                                    IF turn THEN dx - 1 ELSE dx,
                                    dy + 1,
                                    IF turn THEN err1 - minus ELSE err1,
                                    plus + 2,
                                    IF turn THEN minus - 2 ELSE minus)

CircleDisk(height, width, r) ==
    LET radius == CircleRadius(height, width, r)
    IN  CircleSpans(width \div 2, height \div 2, radius, 0, 0, 1, 2 * radius - 1)

\* Mutant: the radius test is > 1.0, so the boundary value 1.0 draws a circle.
generate_circle_mask_StrictBoundary(height, width, r) ==
    IF r <= 0
    THEN MaskExit
    ELSE IF r > RadiusDen
    THEN MaskNone
    ELSE MaskOf([p \in Pixels(height, width) |->
                    IF p \in CircleDisk(height, width, r) THEN 1 ELSE 0])

generate_circle_mask(height, width, r) ==
    IF r <= 0
    THEN MaskExit
    ELSE IF r >= RadiusDen
    THEN MaskNone
    ELSE MaskOf([p \in Pixels(height, width) |->
                    IF p \in CircleDisk(height, width, r) THEN 1 ELSE 0])

\* crop_factor = <<top, bottom, left, right>>, each n / CropDen
generate_crop_mask(height, width, crop_factor) ==
    IF \A i \in 1 .. 4 : crop_factor[i] = 0
    THEN MaskNone
    ELSE IF \E i \in 1 .. 4 : crop_factor[i] < 0 \/ crop_factor[i] > CropDen
    THEN MaskExit
    ELSE LET top == (crop_factor[1] * height) \div CropDen
             bottom == (crop_factor[2] * height) \div CropDen
             left == (crop_factor[3] * width) \div CropDen
             right == (crop_factor[4] * width) \div CropDen
         IN  MaskOf([p \in Pixels(height, width) |->
                        IF /\ top <= p[1] /\ p[1] < height - bottom
                           /\ left <= p[2] /\ p[2] < width - right
                        THEN 1 ELSE 0])

generate_mask(height, width, crop_factor, percent_radius) ==
    LET crop_mask == generate_crop_mask(height, width, crop_factor)
        circle_mask == generate_circle_mask(height, width, percent_radius)
    IN  IF crop_mask.kind = "exit" \/ circle_mask.kind = "exit"
        THEN MaskExit
        ELSE IF crop_mask.kind = None
        THEN circle_mask
        ELSE IF circle_mask.kind = None
        THEN crop_mask
        ELSE MaskOf([p \in Pixels(height, width) |->
                        (crop_mask.mask[p] * circle_mask.mask[p]) % 256])

\* What generate_mask has logged when it returns or exits: the crop mask is
\* made first (line 617), then the circle mask (line 592).
generate_mask_console(height, width, crop_factor, percent_radius) ==
    IF generate_crop_mask(height, width, crop_factor).kind = "exit"
    THEN <<"Invalid crop percentage, must be between 0 and 1.">>
    ELSE IF generate_circle_mask(height, width, percent_radius).kind = "exit"
    THEN <<"The radius of the circle mask must be positive.">>
    ELSE <<>>

MaskArgs ==
    [height : 1 .. MaxDim,
     width : 1 .. MaxDim,
     crop_factor : (0 .. CropDen + 1) \X (0 .. CropDen + 1)
                       \X (0 .. CropDen + 1) \X (0 .. CropDen + 1),
     percent_radius : 0 .. RadiusDen + 1]

InitMask ==
    /\ op = "idle"
    /\ args \in MaskArgs
    /\ ret = <<>>
    /\ NoFilesystem

GenerateMask ==
    /\ op = "idle"
    /\ op' = "generate_mask"
    /\ ret' = generate_mask(args.height, args.width, args.crop_factor, args.percent_radius)
    /\ log' = generate_mask_console(args.height, args.width, args.crop_factor,
                                    args.percent_radius)
    /\ UNCHANGED <<args, dirs, files, pre_dirs, pre_files, cmds>>

NextMask == GenerateMask

SpecMask == InitMask /\ [][NextMask]_vars

MaskGenerated == op = "generate_mask"

ValidMaskArgs ==
    /\ \A i \in 1 .. 4 : 0 <= args.crop_factor[i] /\ args.crop_factor[i] <= CropDen
    /\ args.percent_radius > 0

NoCrop == \A i \in 1 .. 4 : args.crop_factor[i] = 0

NoCircle == args.percent_radius >= RadiusDen

\* C10: for valid inputs generate_mask returns None exactly when there is no
\* crop and the radius is at least 1.0, the crop mask alone when only the
\* circle is absent (radius 1.0 included), the circle mask alone when only the
\* crop is absent, and otherwise the mask that is 1 exactly where both are 1,
\* every pixel being 0 or 1.
C10_MaskCombination ==
    (MaskGenerated /\ ValidMaskArgs) =>
        LET crop == generate_crop_mask(args.height, args.width, args.crop_factor)
            circle == generate_circle_mask(args.height, args.width, args.percent_radius)
        IN  /\ (ret.kind = None) <=> (NoCrop /\ NoCircle)
            /\ (~NoCrop /\ NoCircle) => ret = crop
            /\ (NoCrop /\ ~NoCircle) => ret = circle
            /\ (~NoCrop /\ ~NoCircle) =>
                   /\ ret.kind = "mask"
                   /\ DOMAIN ret.mask = Pixels(args.height, args.width)
                   /\ \A p \in Pixels(args.height, args.width) :
                          ret.mask[p] = IF crop.mask[p] = 1 /\ circle.mask[p] = 1
                                        THEN 1 ELSE 0
            /\ ret.kind = "mask" =>
                   \A p \in DOMAIN ret.mask : ret.mask[p] \in {0, 1}

\* C10 witness: a non-trivial crop at the boundary radius 1.0 returned the
\* crop mask, which keeps some pixels and drops others.
C10_Witness ==
    /\ MaskGenerated
    /\ ValidMaskArgs
    /\ ~NoCrop
    /\ args.percent_radius = RadiusDen
    /\ ret.kind = "mask"
    /\ \E p, q \in DOMAIN ret.mask : ret.mask[p] = 1 /\ ret.mask[q] = 0

(***************************************************************************)
(* The filesystem of convert_video_to_images and copy_images_list.         *)
(*                                                                         *)
(* A directory is <<base, factor>>: image_dir is <<"images", 1>> and its   *)
(* level i sibling f"{image_dir}_{2**i}" is <<"images", 2^i>>.  A file is  *)
(* named by its directory, the prefix and number of its stem and its       *)
(* suffix; its content records what it was made from.                      *)
(***************************************************************************)
MaxDownscales == 1

MaxImages == 3

MaxFrames == 6

MaxTarget == 3

RECURSIVE Pow2(_)
Pow2(i) == IF i = 0 THEN 1 ELSE 2 * Pow2(i - 1)

LevelDir(i) == <<"images", Pow2(i)>>

ImageDir == LevelDir(0)

DataDir == <<"data", 1>>

ALLOWED_RAW_EXTS == {".cr2"}

RAW_CONVERTED_SUFFIX == ".jpg"

File(d, prefix, num, suffix) ==
    [dir |-> d, prefix |-> prefix, num |-> num, suffix |-> suffix]

Content(kind, of, scale) == [kind |-> kind, of |-> of, scale |-> scale]

\* The photographs of the data directory: two JPEGs, a PNG and a RAW file.
DataFiles ==
    {File(DataDir, "IMG_", 1, ".jpg"), File(DataDir, "IMG_", 2, ".jpg"),
     File(DataDir, "IMG_", 3, ".png"), File(DataDir, "IMG_", 4, ".cr2")}

\* image_prefix: the default and a configured one
Prefixes == {"frame_", "img_"}

\* An image left in a level directory by an earlier run.
OldFile(i) == File(LevelDir(i), "frame_", 1, ".jpg")

OldContent(i) == Content("source", 100 + i, 1)

WriteFile(f, p, c) == [q \in DOMAIN f \cup {p} |-> IF q = p THEN c ELSE f[q]]

WriteFiles(f, g) == [q \in DOMAIN f \cup DOMAIN g |-> IF q \in DOMAIN g THEN g[q] ELSE f[q]]

\* shutil.rmtree(d, ignore_errors=True) on a world [dirs, files]
Rmtree(w, d) ==
    [dirs |-> w.dirs \ {d},
     files |-> [p \in {q \in DOMAIN w.files : q.dir # d} |-> w.files[p]]]

\* for i in range(num_downscales + 1): shutil.rmtree(image_dir or f"{image_dir}_{2**i}")
RECURSIVE RemoveLevels(_, _, _)
RemoveLevels(w, i, num_downscales) ==
    IF i > num_downscales
    THEN w
    ELSE RemoveLevels(Rmtree(w, LevelDir(i)), i + 1, num_downscales)

LevelDirs(num_downscales) == {LevelDir(i) : i \in 0 .. num_downscales}

\* One run_command invocation.
\* upscale is <<>> or <<factor>>, nn whether :flags=neighbor is on the scale
\* stages.
Cmd(tool, kind, frame, suffix, select, pix_fmt, levels, upscale, nn) ==
    [tool |-> tool, kind |-> kind, frame |-> frame, suffix |-> suffix,
     select |-> select, pix_fmt |-> pix_fmt, levels |-> levels,
     upscale |-> upscale, nn |-> nn]

\* The worlds a call can start in: the data directory with its photographs,
\* and each level directory either missing or holding an old image.
InitFiles ==
    /\ op = "idle"
    /\ args = <<>>
    /\ ret = <<>>
    /\ \E present \in SUBSET (0 .. MaxDownscales) :
          /\ dirs = {DataDir} \cup {LevelDir(i) : i \in present}
          /\ files = [p \in DataFiles \cup {OldFile(i) : i \in present} |->
                         IF p \in DataFiles
                         THEN Content("source", p.num, 1)
                         ELSE OldContent(CHOOSE i \in present : OldFile(i) = p)]
    /\ pre_dirs = dirs
    /\ pre_files = files
    /\ cmds = <<>>
    /\ log = <<>>

(***************************************************************************)
(* convert_video_to_images                                                 *)
(***************************************************************************)
\* random_seed: Optional[int], <<>> for None and <<n>> for the integer n
Seeds == {<<>>, <<0>>, <<1>>}

\* crop_factor: none, a valid crop, a fraction above 1, a fraction below 0
VideoCrops == {<<0, 0, 0, 0>>, <<1, 0, 0, 0>>, <<CropDen + 1, 0, 0, 0>>, <<0, 0, -1, 0>>}

VideoArgs ==
    {a \in [video : {"file", "dir", "missing"},
            num_frames : 0 .. MaxFrames,
            num_frames_target : 1 .. MaxTarget,
            num_downscales : 0 .. MaxDownscales,
            crop_factor : VideoCrops,
            image_prefix : Prefixes,
            keep_image_dir : BOOLEAN,
            random_seed : Seeds] :
        a.video # "file" => a.num_frames = 0}

\* if random_seed:
SeedGiven(random_seed) == random_seed # <<>> /\ random_seed[1] # 0

\* sorted(S) for a set of integers
RECURSIVE Sorted(_)
Sorted(S) ==
    IF S = {}
    THEN <<>>
    ELSE LET m == CHOOSE x \in S : \A y \in S : x <= y
         IN  <<m>> \o Sorted(S \ {m})

\* math.ceil(a / b)
Ceil(a, b) == (a + b - 1) \div b

\* Mutant: the spacing policy is taken only above a spacing of 2.
FrameSelection_SpacingAboveTwo(a, sample) ==
    LET spacing == a.num_frames \div a.num_frames_target
    IN  IF SeedGiven(a.random_seed)
        THEN [policy |-> "seeded", select |-> "select", spacing |-> 0, pix_fmt |-> FALSE,
              frame_indices |-> Sorted(sample), count |-> a.num_frames_target]
        ELSE IF spacing > 2
        THEN [policy |-> "spacing", select |-> "thumbnail", spacing |-> spacing,
              pix_fmt |-> FALSE,
              frame_indices |-> <<>>, count |-> Ceil(a.num_frames, spacing)]
        ELSE [policy |-> "all", select |-> "", spacing |-> 0, pix_fmt |-> TRUE,
              frame_indices |-> <<>>, count |-> a.num_frames]

\* Mutant: extract-all does not force the pixel format.
FrameSelection_NoPixFmt(a, sample) ==
    LET spacing == a.num_frames \div a.num_frames_target
    IN  IF SeedGiven(a.random_seed)
        THEN [policy |-> "seeded", select |-> "select", spacing |-> 0, pix_fmt |-> FALSE,
              frame_indices |-> Sorted(sample), count |-> a.num_frames_target]
        ELSE IF spacing > 1
        THEN [policy |-> "spacing", select |-> "thumbnail", spacing |-> spacing,
              pix_fmt |-> FALSE,
              frame_indices |-> <<>>, count |-> Ceil(a.num_frames, spacing)]
        ELSE [policy |-> "all", select |-> "", spacing |-> 0, pix_fmt |-> FALSE,
              frame_indices |-> <<>>, count |-> a.num_frames]

\* The frame selection of lines 200-213: the policy, the select stage of the
\* filter graph (thumbnail={spacing} under the spacing policy), whether
\* -pix_fmt bgr8 is added, and how many frames come out.
\* sample is what random.sample(range(num_frames), num_frames_target) drew.
FrameSelection(a, sample) ==
    LET spacing == a.num_frames \div a.num_frames_target
    IN  IF SeedGiven(a.random_seed)
        THEN [policy |-> "seeded", select |-> "select", spacing |-> 0, pix_fmt |-> FALSE,
              frame_indices |-> Sorted(sample), count |-> a.num_frames_target]
        ELSE IF spacing > 1
        THEN [policy |-> "spacing", select |-> "thumbnail", spacing |-> spacing,
              pix_fmt |-> FALSE,
              frame_indices |-> <<>>, count |-> Ceil(a.num_frames, spacing)]
        ELSE [policy |-> "all", select |-> "", spacing |-> 0, pix_fmt |-> TRUE,
              frame_indices |-> <<>>, count |-> a.num_frames]

\* What random.sample(range(n), k) can return; it raises ValueError when k > n.
Samples(n, k) == {S \in SUBSET (0 .. n - 1) : Cardinality(S) = k}

VideoRet(status, sel, num_final_frames) ==
    [status |-> status, policy |-> sel.policy, frame_indices |-> sel.frame_indices,
     spacing |-> sel.spacing, count |-> sel.count, num_final_frames |-> num_final_frames]

NoSelection ==
    [policy |-> None, select |-> "", spacing |-> 0, pix_fmt |-> FALSE,
     frame_indices |-> <<>>, count |-> 0]

\* The frames the transcoder writes: count frames in each level directory.
VideoOutputs(a, count) ==
    [p \in {File(LevelDir(i), a.image_prefix, j, ".png") :
                i \in 0 .. a.num_downscales, j \in 1 .. count} |->
        Content("frame", p.num, p.dir[2])]

\* Mutant: the test that the video exists is left out.
VideoCheck_NoExistsTest(a) ==
    IF \E i \in 1 .. 4 : a.crop_factor[i] < 0 \/ a.crop_factor[i] > CropDen
    THEN "Error: Invalid crop factor"
    ELSE IF a.video = "dir"
    THEN "Error: Video path is a directory"
    ELSE "ok"

\* lines 155-165: the checks made before the video is inspected
VideoCheck(a) ==
    IF \E i \in 1 .. 4 : a.crop_factor[i] < 0 \/ a.crop_factor[i] > CropDen
    THEN "Error: Invalid crop factor"
    ELSE IF a.video = "dir"
    THEN "Error: Video path is a directory"
    ELSE IF a.video = "missing"
    THEN "Error: Video does not exist"
    ELSE "ok"

\* get_num_frames_in_video: the ffprobe packet count
Probe == Cmd("ffprobe", "count_packets", 0, "", "", FALSE, {}, <<>>, FALSE)

ConvertVideoToImages ==
    /\ op = "idle"
    /\ \E a \in VideoArgs :
          LET \* lines 149-153
              w0 == IF a.keep_image_dir
                    THEN [dirs |-> dirs, files |-> files]
                    ELSE RemoveLevels([dirs |-> dirs, files |-> files], 0, a.num_downscales)
              w1 == [w0 EXCEPT !.dirs = @ \cup {ImageDir}]
          IN  /\ op' = "convert_video_to_images"
              /\ args' = a
              /\ pre_dirs' = dirs
              /\ pre_files' = files
              /\ IF VideoCheck(a) # "ok"
                 THEN \* sys.exit(1) of lines 158, 162, 165
                      /\ dirs' = w1.dirs
                      /\ files' = w1.files
                      /\ cmds' = <<>>
                      /\ log' = <<VideoCheck(a)>>
                      /\ ret' = VideoRet("exit", NoSelection, 0)
                 ELSE IF a.num_frames = 0
                 THEN \* lines 168-171
                      /\ dirs' = w1.dirs
                      /\ files' = w1.files
                      /\ cmds' = <<Probe>>
                      /\ log' = <<"Error: Video has no frames">>
                      /\ ret' = VideoRet("exit", NoSelection, 0)
                 ELSE IF SeedGiven(a.random_seed) /\ a.num_frames_target > a.num_frames
                 THEN \* line 204: random.sample raises ValueError
                      /\ dirs' = w1.dirs \cup LevelDirs(a.num_downscales)
                      /\ files' = w1.files
                      /\ cmds' = <<Probe>>
                      /\ log' = <<"Number of frames in video">>
                      /\ ret' = VideoRet("ValueError", NoSelection, 0)
                 ELSE \E sample \in IF SeedGiven(a.random_seed)
                                    THEN Samples(a.num_frames, a.num_frames_target)
                                    ELSE {{}} :
                      LET sel == FrameSelection(a, sample)
                          out == WriteFiles(w1.files, VideoOutputs(a, sel.count))
                      IN  /\ dirs' = w1.dirs \cup LevelDirs(a.num_downscales)
                          /\ files' = out
                          /\ cmds' = <<Probe,
                                       Cmd("ffmpeg", "extract", 0, ".png", sel.select,
                                           sel.pix_fmt, 0 .. a.num_downscales,
                                           <<>>, FALSE)>>
                          /\ log' = <<"Number of frames in video",
                                      CASE sel.policy = "seeded" -> "Extracting frames using seed"
                                        [] sel.policy = "spacing" -> "Extracting frames in evenly spaced intervals"
                                        [] OTHER -> "Can't satisfy requested number of frames. Extracting all frames.",
                                      "Done converting video to images.">>
                          /\ ret' = VideoRet("ok", sel,
                                             Cardinality({p \in DOMAIN out :
                                                 p.dir = ImageDir /\ p.suffix = ".png"}))

\* sorted(paths) for the files of one directory, which differ in their number
RECURSIVE SortedPaths(_)
SortedPaths(S) ==
    IF S = {}
    THEN <<>>
    ELSE LET first == CHOOSE p \in S : \A q \in S : p.num <= q.num
         IN  <<first>> \o SortedPaths(S \ {first})

\* list_images(data): the images of the directory, sorted
list_images(f, data) ==
    SortedPaths({p \in DOMAIN f :
                    p.dir = data /\ p.suffix \in {".jpg", ".png"} \cup ALLOWED_RAW_EXTS})

(***************************************************************************)
(* copy_images_list                                                        *)
(***************************************************************************)
\* The image files that exist when the call starts.
Images == {p \in DOMAIN files : p.suffix \in {".jpg", ".png", ".cr2"}}

\* The lists of at most MaxImages image paths.
RECURSIVE PathLists(_)
PathLists(n) ==
    IF n = 0
    THEN {<<>>}
    ELSE PathLists(n - 1)
         \cup {Append(l, p) : l \in {m \in PathLists(n - 1) : Len(m) = n - 1}, p \in Images}

\* upscale_factor and nearest_neighbor are left at their defaults, None and
\* False; copy_and_upscale_polycam_depth_maps_list is the caller that sets them.
CopyArgs ==
    [image_paths : PathLists(MaxImages),
     num_downscales : 0 .. MaxDownscales,
     image_prefix : Prefixes,
     keep_image_dir : BOOLEAN,
     same_dimensions : BOOLEAN,
     upscale_factor : {<<>>},
     nearest_neighbor : {FALSE}]

\* Mutant: the removal is not guarded by the test on the first input's parent.
CopyPrepare_NoParentTest(a, w) ==
    LET removed ==
            IF /\ ImageDir \in w.dirs
               /\ Len(a.image_paths) # 0
               /\ ~a.keep_image_dir
            THEN RemoveLevels(w, 0, a.num_downscales)
            ELSE w
    IN  [removed EXCEPT !.dirs = @ \cup {ImageDir}]

\* lines 261-267: the removal of the level directories and image_dir.mkdir
CopyPrepare(a, w) ==
    LET removed ==
            IF /\ ImageDir \in w.dirs
               /\ Len(a.image_paths) # 0
               /\ ~a.keep_image_dir
               /\ ImageDir # a.image_paths[1].dir
            THEN RemoveLevels(w, 0, a.num_downscales)
            ELSE w
    IN  [removed EXCEPT !.dirs = @ \cup {ImageDir}]

\* lines 272-295: the copy loop from image idx on, over the loop state
\* [files, cmds, image_paths, copied, status]
RECURSIVE CopyEach(_, _, _)
CopyEach(a, s, idx) ==
    IF idx > Len(s.image_paths) \/ s.status # "ok"
    THEN s
    ELSE LET image_path == s.image_paths[idx]
             raw == image_path.suffix \in ALLOWED_RAW_EXTS
             copied_image_path ==
                 File(ImageDir, a.image_prefix, idx,
                      IF raw THEN RAW_CONVERTED_SUFFIX ELSE image_path.suffix)
             exists == image_path \in DOMAIN s.files
             rotate == Cmd("ffmpeg", "rotate", idx, image_path.suffix, "", FALSE, {0},
                           <<>>, FALSE)
             after ==
                 IF raw
                 THEN IF ~exists
                      THEN [s EXCEPT !.status = "LibRawIOError"]
                      ELSE [s EXCEPT
                               !.files = WriteFile(@, copied_image_path,
                                             Content("raw_converted", @[image_path].of, 1)),
                               !.image_paths[idx] = copied_image_path,
                               !.copied = Append(@, copied_image_path)]
                 ELSE IF a.same_dimensions
                 THEN IF ~exists
                      THEN [s EXCEPT !.status = "FileNotFoundError"]
                      ELSE IF image_path = copied_image_path
                      THEN \* shutil.SameFileError, passed over
                           [s EXCEPT !.copied = Append(@, copied_image_path)]
                      ELSE [s EXCEPT
                               !.files = WriteFile(@, copied_image_path, @[image_path]),
                               !.copied = Append(@, copied_image_path)]
                 ELSE IF ~exists
                      THEN [s EXCEPT !.cmds = Append(@, rotate),
                                     !.status = "command_failed"]
                      ELSE [s EXCEPT
                               !.files = WriteFile(@, copied_image_path,
                                             Content("transcoded", @[image_path].of, 1)),
                               !.cmds = Append(@, rotate),
                               !.copied = Append(@, copied_image_path)]
         IN  CopyEach(a, after, idx + 1)

\* The numbers n such that {prefix}00001 .. {prefix}n with this suffix all
\* exist in image_dir: what the transcoder reads for the pattern {prefix}%05d.
SequenceRun(f, prefix, suffix) ==
    {n \in {p.num : p \in DOMAIN f} :
        \A m \in 1 .. n : File(ImageDir, prefix, m, suffix) \in DOMAIN f}

\* The outputs of one downscale command that read the frames `frames` of
\* image_dir: one file per frame in every level directory, level 0 included.
DownscaleOutputs(a, f, frames, suffix) ==
    [p \in {File(LevelDir(i), a.image_prefix, j, suffix) :
                i \in 0 .. a.num_downscales, j \in frames} |->
        Content(IF a.upscale_factor = <<>> THEN "scaled" ELSE "upscaled",
                f[File(ImageDir, a.image_prefix, p.num, suffix)].of, p.dir[2])]

\* lines 315-343 with same_dimensions False: one command per frame, each
\* reading {prefix}{framenum:05d} with the suffix of the first copied image
RECURSIVE DownscaleEach(_, _, _)
DownscaleEach(a, s, framenum) ==
    IF framenum > Len(s.image_paths) \/ s.status # "ok"
    THEN s
    ELSE LET suffix == s.copied[1].suffix
             cmd == Cmd("ffmpeg", "downscale", framenum, suffix, "", FALSE,
                        0 .. a.num_downscales, a.upscale_factor, a.nearest_neighbor)
             input == File(ImageDir, a.image_prefix, framenum, suffix)
         IN  DownscaleEach(a,
                 IF input \in DOMAIN s.files
                 THEN [s EXCEPT
                          !.files = WriteFiles(@, DownscaleOutputs(a, @, {framenum}, suffix)),
                          !.cmds = Append(@, cmd)]
                 ELSE [s EXCEPT !.cmds = Append(@, cmd), !.status = "command_failed"],
                 framenum + 1)

\* lines 315-343: the downscale pass
Downscale(a, s) ==
    IF s.status # "ok"
    THEN s
    ELSE IF a.same_dimensions
    THEN IF Len(s.copied) = 0
         THEN \* line 317: copied_image_paths[0] of an empty list
              [s EXCEPT !.status = "IndexError"]
         ELSE LET suffix == s.copied[1].suffix
                  frames == SequenceRun(s.files, a.image_prefix, suffix)
              IN  [s EXCEPT
                      !.files = WriteFiles(@, DownscaleOutputs(a, @, frames, suffix)),
                      !.cmds = Append(@, Cmd("ffmpeg", "downscale", 0, suffix, "", FALSE,
                                             0 .. a.num_downscales, a.upscale_factor,
                                             a.nearest_neighbor))]
    ELSE DownscaleEach(a, s, 1)

copy_images_list(a, w) ==
    LET w1 == CopyPrepare(a, w)
        s1 == CopyEach(a, [files |-> w1.files, cmds |-> <<>>,
                           image_paths |-> a.image_paths, copied |-> <<>>,
                           status |-> "ok"], 1)
        \* lines 301-302 run once the copy loop has ended without an exception
        d2 == IF s1.status = "ok"
              THEN w1.dirs \cup LevelDirs(a.num_downscales)
              ELSE w1.dirs
        s2 == Downscale(a, s1)
    IN  [dirs |-> d2, files |-> s2.files, cmds |-> s2.cmds,
         log |-> IF s2.status # "ok"
                 THEN <<>>
                 ELSE IF Len(s2.image_paths) = 0
                 THEN <<"No usable images in the data folder.">>
                 ELSE <<"Done copying images">>,
         ret |-> [status |-> s2.status,
                  copied |-> IF s2.status = "ok" THEN s2.copied ELSE <<>>,
                  image_paths |-> s2.image_paths]]

CopyImagesList ==
    /\ op = "idle"
    /\ \E a \in CopyArgs :
          LET r == copy_images_list(a, [dirs |-> dirs, files |-> files])
          IN  /\ op' = "copy_images_list"
              /\ args' = a
              /\ pre_dirs' = dirs
              /\ pre_files' = files
              /\ dirs' = r.dirs
              /\ files' = r.files
              /\ cmds' = r.cmds
              /\ log' = r.log
              /\ ret' = r.ret

(***************************************************************************)
(* copy_and_upscale_polycam_depth_maps_list, downscale_images              *)
(***************************************************************************)
POLYCAM_UPSCALING_TIMES == 2

\* depth_dir is the directory the model calls image_dir.
PolycamArgs ==
    [polycam_depth_image_filenames : PathLists(MaxImages),
     depth_dir : {ImageDir},
     num_downscales : 0 .. MaxDownscales]

copy_and_upscale_polycam_depth_maps_list(a, w) ==
    LET \* line 371: depth_dir.mkdir(parents=True, exist_ok=True)
        w1 == [w EXCEPT !.dirs = @ \cup {a.depth_dir}]
        \* lines 383-391, the other arguments at their defaults
        r == copy_images_list(
                 [image_paths |-> a.polycam_depth_image_filenames,
                  num_downscales |-> a.num_downscales,
                  image_prefix |-> "frame_",
                  keep_image_dir |-> FALSE,
                  same_dimensions |-> TRUE,
                  upscale_factor |-> <<Pow2(POLYCAM_UPSCALING_TIMES)>>,
                  nearest_neighbor |-> TRUE], w1)
    IN  [dirs |-> r.dirs, files |-> r.files, cmds |-> r.cmds,
         log |-> IF r.ret.status = "ok"
                 THEN r.log \o <<"Done upscaling depth maps.">>
                 ELSE r.log,
         ret |-> [status |-> r.ret.status, copied |-> r.ret.copied]]

CopyAndUpscalePolycamDepthMapsList ==
    /\ op = "idle"
    /\ \E a \in PolycamArgs :
          LET r == copy_and_upscale_polycam_depth_maps_list(a, [dirs |-> dirs, files |-> files])
          IN  /\ op' = "copy_and_upscale_polycam_depth_maps_list"
              /\ args' = a
              /\ pre_dirs' = dirs
              /\ pre_files' = files
              /\ dirs' = r.dirs
              /\ files' = r.files
              /\ cmds' = r.cmds
              /\ log' = r.log
              /\ ret' = r.ret

\* folder_name is the default "images", so that the level directories are
\* the siblings images_{2^i} of image_dir.
DownscaleImagesArgs ==
    [image_dir : {ImageDir},
     num_downscales : 0 .. MaxDownscales,
     folder_name : {"images"},
     nearest_neighbor : BOOLEAN]

downscale_images(a, w) ==
    LET listing == list_images(w.files, a.image_dir)
        n == Len(listing)
        \* lines 469-484: for every factor, one command per listed file
        level(k) == (k - 1) \div n + 1
        image(k) == listing[((k - 1) % n) + 1]
    IN  IF a.num_downscales = 0
        THEN \* lines 461-462
             [dirs |-> w.dirs, files |-> w.files, cmds |-> <<>>, log |-> <<>>,
              ret |-> [status |-> "ok", summary |-> "No downscaling performed.",
                       factors |-> <<>>]]
        ELSE [dirs |-> w.dirs \cup {LevelDir(i) : i \in 1 .. a.num_downscales},
              files |-> WriteFiles(w.files,
                            [p \in {File(LevelDir(i), f.prefix, f.num, f.suffix) :
                                        i \in 1 .. a.num_downscales,
                                        f \in {listing[j] : j \in 1 .. n}} |->
                                Content("scaled",
                                        w.files[File(a.image_dir, p.prefix, p.num, p.suffix)].of,
                                        p.dir[2])]),
              cmds |-> [k \in 1 .. a.num_downscales * n |->
                           Cmd("ffmpeg", "downscale", image(k).num, image(k).suffix, "",
                               FALSE, {level(k)}, <<>>, a.nearest_neighbor)],
              log |-> <<"Done downscaling images.">>,
              ret |-> [status |-> "ok", summary |-> "We downsampled the images by",
                       factors |-> [i \in 1 .. a.num_downscales |-> Pow2(i)]]]

DownscaleImages ==
    /\ op = "idle"
    /\ \E a \in DownscaleImagesArgs :
          LET r == downscale_images(a, [dirs |-> dirs, files |-> files])
          IN  /\ op' = "downscale_images"
              /\ args' = a
              /\ pre_dirs' = dirs
              /\ pre_files' = files
              /\ dirs' = r.dirs
              /\ files' = r.files
              /\ cmds' = r.cmds
              /\ log' = r.log
              /\ ret' = r.ret

Next ==
    \/ ConvertVideoToImages
    \/ CopyImagesList
    \/ CopyAndUpscalePolycamDepthMapsList
    \/ DownscaleImages

Spec == InitFiles /\ [][Next]_vars

(***************************************************************************)
(* The claims about copy_images_list and convert_video_to_images           *)
(***************************************************************************)
Copied == op = "copy_images_list"

Converted == op = "convert_video_to_images"

\* The files of directory d that the call wrote: new, or with a new content.
Written(d) ==
    {p \in DOMAIN files :
        /\ p.dir = d
        /\ (p \in DOMAIN pre_files => files[p] # pre_files[p])}

\* A file that existed before the call is still there with the same content.
Survives(p) == p \in DOMAIN files /\ files[p] = pre_files[p]

\* C3: given an empty list of images, copy_images_list (for either value of
\* same_dimensions) logs the warning, returns an empty result without raising,
\* runs no transcoder command and writes no file.
C3_EmptyListReturnsEmpty ==
    (Copied /\ Len(args.image_paths) = 0) =>
        /\ ret.status = "ok"
        /\ ret.copied = <<>>
        /\ log = <<"No usable images in the data folder.">>
        /\ cmds = <<>>
        /\ files = pre_files

\* C4: for k >= 1 non-RAW inputs of any suffixes and same_dimensions True, the
\* call returns normally, its j-th level-0 output is {prefix}{j:05d} with the
\* j-th input's suffix, and every downscale level 1..num_downscales holds
\* exactly the k outputs of the same names.
C4_OneOutputPerImagePerLevel ==
    (/\ Copied
     /\ Len(args.image_paths) >= 1
     /\ args.same_dimensions
     /\ \A j \in 1 .. Len(args.image_paths) :
            args.image_paths[j].suffix \notin ALLOWED_RAW_EXTS) =>
        LET k == Len(args.image_paths)
            Name(i, j) ==
                File(LevelDir(i), args.image_prefix, j, args.image_paths[j].suffix)
        IN  /\ ret.status = "ok"
            /\ ret.copied = [j \in 1 .. k |-> Name(0, j)]
            /\ \A j \in 1 .. k : Name(0, j) \in DOMAIN files
            /\ \A i \in 1 .. args.num_downscales :
                   Written(LevelDir(i)) = {Name(i, j) : j \in 1 .. k}

\* The level directories that hold a frame the extraction wrote.
FrameDirs == {p.dir : p \in {q \in DOMAIN files : files[q].kind = "frame"}}

FramesIn(d) == {p \in DOMAIN files : p.dir = d /\ files[p].kind = "frame"}

\* C5 as stated: an extraction writes to exactly num_downscales + 1
\* directories and selects at most num_frames_target frames for each, under
\* every selection policy.
C5_AtMostTargetFrames ==
    (Converted /\ ret.status = "ok") =>
        /\ FrameDirs = LevelDirs(args.num_downscales)
        /\ Cardinality(FrameDirs) = args.num_downscales + 1
        /\ \A d \in FrameDirs : Cardinality(FramesIn(d)) <= args.num_frames_target

\* C5 amended: an extraction writes to exactly num_downscales + 1 directories,
\* the same number of frames to each: exactly num_frames_target under the
\* seeded sample, ceil(N / spacing) under the spacing policy and N under
\* extract-all, which can exceed the target but is always below twice it.
C5_FramesBelowTwiceTarget ==
    (Converted /\ ret.status = "ok") =>
        /\ FrameDirs = LevelDirs(args.num_downscales)
        /\ Cardinality(FrameDirs) = args.num_downscales + 1
        /\ \A d \in FrameDirs : Cardinality(FramesIn(d)) = ret.count
        /\ ret.count >= 1
        /\ ret.count < 2 * args.num_frames_target
        /\ ret.policy = "seeded" => ret.count = args.num_frames_target
        /\ ret.policy = "spacing" =>
               ret.count = Ceil(args.num_frames,
                                args.num_frames \div args.num_frames_target)
        /\ ret.policy = "all" => ret.count = args.num_frames

\* C5 witness: an extraction under the spacing policy wrote more frames than
\* the target to each of two directories.
C5_Witness ==
    /\ Converted
    /\ ret.status = "ok"
    /\ ret.policy = "spacing"
    /\ args.num_downscales = 1
    /\ \A d \in LevelDirs(1) : Cardinality(FramesIn(d)) > args.num_frames_target

\* C6: whenever a random seed is supplied, 0 included, the selection is the
\* seeded one: a sorted sequence of exactly num_frames_target distinct frame
\* indices of [0, N), taken before the spacing and extract-all policies.
C6_AnySeedSelectsSample ==
    (Converted /\ ret.status = "ok" /\ args.random_seed # <<>>) =>
        /\ ret.policy = "seeded"
        /\ Len(ret.frame_indices) = args.num_frames_target
        /\ \A i \in 1 .. Len(ret.frame_indices) :
               /\ ret.frame_indices[i] \in 0 .. args.num_frames - 1
               /\ i > 1 => ret.frame_indices[i - 1] < ret.frame_indices[i]

InvalidCrop ==
    \E i \in 1 .. 4 : args.crop_factor[i] < 0 \/ args.crop_factor[i] > CropDen

Transcoded == \E i \in 1 .. Len(cmds) : cmds[i].tool = "ffmpeg"

\* C7: convert_video_to_images ends the process without running the
\* transcoder when a crop fraction is outside [0,1], the video path is a
\* directory or does not exist, or the video has no frames; in the first
\* three cases the frame count is not inspected either.
C7_FatalBeforeTranscoder ==
    Converted =>
        /\ (InvalidCrop \/ args.video \in {"dir", "missing"}) =>
               /\ ret.status = "exit"
               /\ cmds = <<>>
        /\ (args.video = "file" /\ args.num_frames = 0) =>
               /\ ret.status = "exit"
               /\ ~Transcoded
        /\ ret.status = "exit" =>
               /\ FrameDirs = {}
               /\ Len(log) = 1

\* C7 witness: a video without frames was inspected and the call ended
\* fatally before the transcoder.
C7_Witness ==
    /\ Converted
    /\ ~InvalidCrop
    /\ args.video = "file"
    /\ args.num_frames = 0
    /\ ret.status = "exit"
    /\ cmds = <<Probe>>

PreLevelFiles == {p \in DOMAIN pre_files : p.dir \in LevelDirs(args.num_downscales)}

\* C8 as stated: in both functions, with keep_image_dir False no file of a
\* level directory survives the call, and with keep_image_dir True no
\* directory is deleted.
C8_CleanSlateUnlessKept ==
    (Converted \/ Copied) =>
        /\ ~args.keep_image_dir => \A p \in PreLevelFiles : ~Survives(p)
        /\ args.keep_image_dir => pre_dirs \subseteq dirs

\* The test of lines 261-263 under which copy_images_list removes the levels.
CopyRemoves ==
    /\ ~args.keep_image_dir
    /\ ImageDir \in pre_dirs
    /\ Len(args.image_paths) # 0
    /\ ImageDir # args.image_paths[1].dir

\* C8 amended: convert_video_to_images with keep_image_dir False leaves no
\* file of a level directory; copy_images_list does so only when moreover
\* image_dir is a directory, the list is not empty and image_dir is not the
\* parent of the first input, and otherwise deletes no file and no directory;
\* with keep_image_dir True neither function deletes a file or a directory.
C8_CleanSlateWhenRemoving ==
    /\ (Converted /\ ~args.keep_image_dir) => \A p \in PreLevelFiles : ~Survives(p)
    /\ (Copied /\ CopyRemoves) => \A p \in PreLevelFiles : ~Survives(p)
    /\ (Copied /\ ~CopyRemoves) =>
           /\ pre_dirs \subseteq dirs
           /\ DOMAIN pre_files \subseteq DOMAIN files
    /\ ((Converted \/ Copied) /\ args.keep_image_dir) =>
           /\ pre_dirs \subseteq dirs
           /\ DOMAIN pre_files \subseteq DOMAIN files

\* C8 witness: copy_images_list, told to clean and given inputs of another
\* directory, removed the old images of image_dir and of its downscale level.
C8_Witness ==
    /\ Copied
    /\ CopyRemoves
    /\ args.num_downscales = 1
    /\ {OldFile(0), OldFile(1)} \subseteq DOMAIN pre_files
    /\ ~Survives(OldFile(0))
    /\ ~Survives(OldFile(1))

\* C9: no call of copy_images_list deletes or overwrites a file of its input
\* list: every input still exists with the content it had.
C9_SourcesUntouched ==
    Copied =>
        \A j \in 1 .. Len(args.image_paths) : Survives(args.image_paths[j])

\* C13: without a random seed, for N >= 1 frames and a target >= 1: when
\* spacing = N // target > 1 the filter graph has the thumbnail={spacing}
\* stage, ceil(N / spacing) frames are announced and written, and no pixel
\* format is forced; otherwise, which is exactly when N < 2 * target, the
\* filter graph has no selection stage, all N frames are written, the warning
\* is printed and -pix_fmt bgr8 is added. Exactly one branch is taken.
C13_SpacingOrExtractAll ==
    (Converted /\ ret.status = "ok" /\ args.random_seed = <<>>) =>
        LET N == args.num_frames
            spacing == N \div args.num_frames_target
            spaced ==
                /\ cmds[2].select = "thumbnail"
                /\ ret.spacing = spacing
                /\ ~cmds[2].pix_fmt
                /\ ret.count = Ceil(N, spacing)
                /\ log[2] = "Extracting frames in evenly spaced intervals"
            all ==
                /\ cmds[2].select = ""
                /\ cmds[2].pix_fmt
                /\ ret.count = N
                /\ log[2] = "Can't satisfy requested number of frames. Extracting all frames."
        IN  /\ N >= 1
            /\ Len(cmds) = 2
            /\ cmds[2].tool = "ffmpeg"
            /\ Cardinality(FramesIn(ImageDir)) = ret.count
            /\ spacing > 1 => spaced /\ ~all
            /\ spacing <= 1 => all /\ ~spaced
            /\ spacing <= 1 <=> N < 2 * args.num_frames_target

\* C13 witness: without a seed, a video of more frames than the target but
\* fewer than twice the target was extracted whole with the pixel format forced.
C13_Witness ==
    /\ Converted
    /\ ret.status = "ok"
    /\ args.random_seed = <<>>
    /\ args.num_frames > args.num_frames_target
    /\ args.num_frames < 2 * args.num_frames_target
    /\ cmds[2].select = ""
    /\ cmds[2].pix_fmt
    /\ Cardinality(FramesIn(ImageDir)) = args.num_frames

\* The positions in cmds of the commands of this kind for image j.
CmdsFor(kind, j) ==
    {i \in 1 .. Len(cmds) : cmds[i].kind = kind /\ cmds[i].frame = j}

\* C14: for k >= 1 non-RAW inputs, copy_images_list with same_dimensions True
\* runs exactly one transcoder command, a batched downscale that covers all k
\* numbered copies; with same_dimensions False it runs exactly one rotate and
\* exactly one downscale command per image, 2k in all, the downscale command
\* of image j coming after the copy of image j and reading that copy, so that
\* no image is skipped.
C14_OneOrTwoCommandsPerImage ==
    (/\ Copied
     /\ Len(args.image_paths) >= 1
     /\ \A j \in 1 .. Len(args.image_paths) :
            args.image_paths[j].suffix \notin ALLOWED_RAW_EXTS) =>
        LET k == Len(args.image_paths)
            Copy(i, j) ==
                File(LevelDir(i), args.image_prefix, j, args.image_paths[j].suffix)
        IN  /\ ret.status = "ok"
            /\ args.same_dimensions =>
                   /\ Len(cmds) = 1
                   /\ cmds[1].tool = "ffmpeg"
                   /\ cmds[1].kind = "downscale"
                   /\ \A j \in 1 .. k, i \in 0 .. args.num_downscales :
                          /\ Copy(i, j) \in DOMAIN files
                          /\ files[Copy(i, j)].kind = "scaled"
            /\ ~args.same_dimensions =>
                   /\ Len(cmds) = 2 * k
                   /\ \A j \in 1 .. k :
                          /\ Cardinality(CmdsFor("rotate", j)) = 1
                          /\ Cardinality(CmdsFor("downscale", j)) = 1
                          /\ \A r \in CmdsFor("rotate", j), d \in CmdsFor("downscale", j) :
                                 /\ r < d
                                 /\ cmds[d].suffix = args.image_paths[j].suffix

(***************************************************************************)
(* list_images, copy_images                                                *)
(***************************************************************************)
\* The worlds copy_images can start in: any of the photographs present in the
\* data directory, each level directory missing or holding an old image.
InitListing ==
    /\ op = "idle"
    /\ args = <<>>
    /\ ret = <<>>
    /\ \E present \in SUBSET (0 .. MaxDownscales), data \in SUBSET DataFiles :
          /\ dirs = {DataDir} \cup {LevelDir(i) : i \in present}
          /\ files = [p \in data \cup {OldFile(i) : i \in present} |->
                         IF p \in DataFiles
                         THEN Content("source", p.num, 1)
                         ELSE OldContent(CHOOSE i \in present : OldFile(i) = p)]
    /\ pre_dirs = dirs
    /\ pre_files = files
    /\ cmds = <<>>
    /\ log = <<>>

\* OrderedDict(pairs): a key met again keeps its place and takes the new value
RECURSIVE OrderedDictOf(_, _)
OrderedDictOf(pairs, acc) ==
    IF pairs = <<>>
    THEN acc
    ELSE LET kv == Head(pairs)
             at == {i \in 1 .. Len(acc) : acc[i][1] = kv[1]}
         IN  OrderedDictOf(Tail(pairs),
                 IF at = {}
                 THEN Append(acc, kv)
                 ELSE [acc EXCEPT ![CHOOSE i \in at : TRUE] = kv])

CopyImagesArgs ==
    [data : {DataDir, ImageDir},
     image_prefix : Prefixes,
     keep_image_dir : BOOLEAN,
     num_downscales : 0 .. MaxDownscales,
     same_dimensions : BOOLEAN]

copy_images(a, w) ==
    LET image_paths == list_images(w.files, a.data)
        r == copy_images_list(
                 [image_paths |-> image_paths,
                  num_downscales |-> a.num_downscales,
                  image_prefix |-> a.image_prefix,
                  keep_image_dir |-> a.keep_image_dir,
                  same_dimensions |-> a.same_dimensions,
                  upscale_factor |-> <<>>,
                  nearest_neighbor |-> FALSE], w)
        \* line 436: image_paths is the list copy_images_list has written into
        keys == r.ret.image_paths
    IN  IF Len(image_paths) = 0
        THEN \* lines 422-424
             [dirs |-> w.dirs, files |-> w.files, cmds |-> <<>>,
              log |-> <<"No usable images in the data folder.">>,
              ret |-> [status |-> "exit", listing |-> image_paths, mapping |-> <<>>]]
        ELSE [dirs |-> r.dirs, files |-> r.files, cmds |-> r.cmds, log |-> r.log,
              ret |-> [status |-> r.ret.status,
                       listing |-> image_paths,
                       mapping |-> IF r.ret.status = "ok"
                                   THEN OrderedDictOf(
                                            [k \in 1 .. Len(r.ret.copied) |->
                                                <<keys[k], r.ret.copied[k]>>], <<>>)
                                   ELSE <<>>]]

CopyImages ==
    /\ op = "idle"
    /\ \E a \in CopyImagesArgs :
          LET r == copy_images(a, [dirs |-> dirs, files |-> files])
          IN  /\ op' = "copy_images"
              /\ args' = a
              /\ pre_dirs' = dirs
              /\ pre_files' = files
              /\ dirs' = r.dirs
              /\ files' = r.files
              /\ cmds' = r.cmds
              /\ log' = r.log
              /\ ret' = r.ret

NextCopyImages == CopyImages

SpecCopyImages == InitListing /\ [][NextCopyImages]_vars

\* C11: copy_images returns an ordered mapping with one entry per image found
\* in the data directory, in sorted order, whose k-th key is the original path
\* of the k-th image, RAW files included, and whose k-th value is
\* image_dir/{prefix}{k:05d} with the original suffix, or with '.jpg' for a
\* RAW file.
C11_MappingFromOriginalPaths ==
    (op = "copy_images" /\ ret.status = "ok") =>
        /\ Len(ret.mapping) = Len(ret.listing)
        /\ \A k \in 1 .. Len(ret.mapping) :
               /\ ret.mapping[k][1] = ret.listing[k]
               /\ ret.mapping[k][2] =
                      File(ImageDir, args.image_prefix, k,
                           IF ret.listing[k].suffix \in ALLOWED_RAW_EXTS
                           THEN RAW_CONVERTED_SUFFIX
                           ELSE ret.listing[k].suffix)

(***************************************************************************)
(* save_mask, run on the level-0 directory the copier has filled           *)
(***************************************************************************)
\* The data directory with its photographs and no level directory yet.
FreshWorld ==
    [dirs |-> {DataDir},
     files |-> [p \in DataFiles |-> Content("source", p.num, 1)]]

\* The copier calls that fill image_dir before the mask is saved.
PipelineArgs ==
    [image_paths : {<<File(DataDir, "IMG_", 1, ".jpg")>>,
                    <<File(DataDir, "IMG_", 1, ".jpg"), File(DataDir, "IMG_", 2, ".jpg")>>},
     num_downscales : 0 .. MaxDownscales,
     image_prefix : Prefixes,
     keep_image_dir : {FALSE},
     same_dimensions : BOOLEAN,
     upscale_factor : {<<>>},
     nearest_neighbor : {FALSE}]

InitSaveMask ==
    /\ op = "idle"
    /\ args = <<>>
    /\ ret = <<>>
    /\ \E a \in PipelineArgs :
          /\ dirs = copy_images_list(a, FreshWorld).dirs
          /\ files = copy_images_list(a, FreshWorld).files
    /\ pre_dirs = dirs
    /\ pre_files = files
    /\ cmds = <<>>
    /\ log = <<>>

MaskDir(i) == <<"masks", Pow2(i)>>

MaskFile(i) == File(MaskDir(i), "mask", 0, ".png")

\* cv2.resize(mask, (width, height), interpolation=cv2.INTER_NEAREST) of a
\* mask of src_height rows and src_width columns
ResizeNearest(mask, src_height, src_width, height, width) ==
    [p \in Pixels(height, width) |->
        mask[<<(p[1] * src_height) \div height, (p[2] * src_width) \div width>>]]

\* The sizes cv2.imread reports for the representative image.
ImageSizes == 1 .. MaxDim

SaveMaskArgs ==
    [height : ImageSizes,
     width : ImageSizes,
     num_downscales : 0 .. MaxDownscales,
     crop_factor : {<<0, 0, 0, 0>>, <<1, 0, 0, 0>>, <<0, 0, 1, 1>>},
     percent_radius : 0 .. RadiusDen + 1]

\* lines 681-692: the masks of the levels 0 .. top
SaveMaskLevels(a, mask, top) ==
    [p \in {MaskFile(i) : i \in 0 .. top} |->
        Content("mask",
                IF p.dir[2] = 1
                THEN mask
                ELSE ResizeNearest(mask, a.height, a.width,
                                   a.height \div p.dir[2], a.width \div p.dir[2]),
                p.dir[2])]

\* line 678: mask *= 255 on uint8
Scale255(mask) == [p \in DOMAIN mask |-> (mask[p] * 255) % 256]

save_mask(a, w) ==
    LET found == {p \in DOMAIN w.files : p.dir = ImageDir /\ p.prefix = "frame_"}
        m == generate_mask(a.height, a.width, a.crop_factor, a.percent_radius)
        unchanged(status, console) ==
            [dirs |-> w.dirs, files |-> w.files, log |-> console,
             ret |-> [status |-> status, value |-> None]]
        \* the levels whose size (width // 2^i, height // 2^i) is empty
        empty == {i \in 1 .. a.num_downscales :
                     a.height \div Pow2(i) = 0 \/ a.width \div Pow2(i) = 0}
        stop == CHOOSE i \in empty : \A j \in empty : i <= j
    IN  IF found = {}
        THEN \* line 672: next() of an empty glob
             unchanged("StopIteration", <<>>)
        ELSE IF m.kind = "exit"
        THEN unchanged("exit", generate_mask_console(a.height, a.width, a.crop_factor,
                                                     a.percent_radius))
        ELSE IF m.kind = None
        THEN \* lines 676-677
             unchanged("ok", <<>>)
        ELSE IF empty # {}
        THEN \* cv2.resize raises at the first empty level, whose directory
             \* line 685 has already made
             [dirs |-> w.dirs \cup {MaskDir(i) : i \in 0 .. stop},
              files |-> WriteFiles(w.files, SaveMaskLevels(a, Scale255(m.mask), stop - 1)),
              log |-> <<>>,
              ret |-> [status |-> "cv2.error", value |-> None]]
        ELSE [dirs |-> w.dirs \cup {MaskDir(i) : i \in 0 .. a.num_downscales},
              files |-> WriteFiles(w.files,
                            SaveMaskLevels(a, Scale255(m.mask), a.num_downscales)),
              log |-> <<"Generated and saved masks.">>,
              \* line 694
              ret |-> [status |-> "ok", value |-> MaskFile(0)]]

SaveMask ==
    /\ op = "idle"
    /\ \E a \in SaveMaskArgs :
          LET r == save_mask(a, [dirs |-> dirs, files |-> files])
          IN  /\ op' = "save_mask"
              /\ args' = a
              /\ pre_dirs' = dirs
              /\ pre_files' = files
              /\ dirs' = r.dirs
              /\ files' = r.files
              /\ cmds' = <<>>
              /\ log' = r.log
              /\ ret' = r.ret

NextSaveMask == SaveMask

SpecSaveMask == InitSaveMask /\ [][NextSaveMask]_vars

MaskFiles == {p \in DOMAIN files : p.dir[1] = "masks"}

\* C12: when image_dir holds an image the pipeline wrote, under whatever
\* prefix, and generate_mask yields a mask, save_mask writes exactly one
\* mask.png under masks and under masks_{2^i} for i = 1..num_downscales, each
\* with pixel values in {0, 255} and of size (width // 2^i, height // 2^i);
\* when generate_mask yields None it writes no file, creates no directory and
\* returns None.
C12_OneMaskPerLevel ==
    (/\ op = "save_mask"
     /\ \E p \in DOMAIN pre_files : p.dir = ImageDir) =>
        LET m == generate_mask(args.height, args.width, args.crop_factor,
                               args.percent_radius)
        IN  /\ m.kind = "mask" =>
                   /\ ret.status = "ok"
                   /\ MaskFiles = {MaskFile(i) : i \in 0 .. args.num_downscales}
                   /\ \A i \in 0 .. args.num_downscales :
                          /\ DOMAIN files[MaskFile(i)].of =
                                 Pixels(args.height \div Pow2(i), args.width \div Pow2(i))
                          /\ \A q \in DOMAIN files[MaskFile(i)].of :
                                 files[MaskFile(i)].of[q] \in {0, 255}
            /\ m.kind = None =>
                   /\ ret = [status |-> "ok", value |-> None]
                   /\ files = pre_files
                   /\ dirs = pre_dirs
=============================================================================
